---- MODULE Spec2Model ----
(***************************************************************************)
(* Model of the evaluation workspace: Workspace.Evaluate (attempt fan-out),*)
(* Workspace.EvaluateAllModelsOnce (model fan-out) and                     *)
(* Workspace.WithSystemPrompt.                                             *)
(*                                                                         *)
(* Text is a sequence of lines, each line a string.  Workspace values live *)
(* in a heap indexed by pointer: pointer 0 is the caller's workspace,      *)
(* pointer i (1..K) the workspace New builds for knownModels[i].  Call c   *)
(* of Evaluate is the call whose receiver is heap[c].                      *)
(***************************************************************************)
EXTENDS Integers, Sequences, FiniteSets, TLC

VARIABLES
    heap,      \* pointer -> Workspace{Model, Attempts, SystemPrompt}
    caller,    \* the caller's position, the operation and its arguments/results
    calls,     \* per Evaluate call: coordinator position and locals
    runners,   \* per Evaluate call: one record per attempt goroutine
    fan,       \* EvaluateAllModelsOnce: reports, wg, loop index
    mrun       \* EvaluateAllModelsOnce: one record per model goroutine

vars == <<heap, caller, calls, runners, fan, mrun>>

-----------------------------------------------------------------------------
(* Bounds of the model *)

MaxAttempts == 3

(* Inputs the caller may pass *)
InputNames == {"SingleState", "not-a-real-name"}

InputPrompts == {"", "be terse"}

\* the system prompt the caller's workspace is built with
InitPrompts == {"be terse"}

InputModels == {"gpt-4o"}

-----------------------------------------------------------------------------
(* Program constants *)

knownModels ==
    <<"gpt-4o", "gemini-2.0-flash", "claude-3-5-sonnet-latest",
      "claude-3-7-sonnet-latest">>

evals ==
    {"BuildMulti", "BuildMultiNoVar", "ReadImplicitVars", "SingleState",
     "SingleStateTransition", "UndoSingle"}

K == Len(knownModels)

Calls == 0..K

\* nil error
NoErr == <<>>

-----------------------------------------------------------------------------
(* Formatting *)

Digit(d) ==
    CASE d = 0 -> "0" [] d = 1 -> "1" [] d = 2 -> "2" [] d = 3 -> "3"
      [] d = 4 -> "4" [] d = 5 -> "5" [] d = 6 -> "6" [] d = 7 -> "7"
      [] d = 8 -> "8" [] d = 9 -> "9"

RECURSIVE Itoa(_)
\* %d of a non-negative int
Itoa(n) == IF n < 10 THEN Digit(n) ELSE Itoa(n \div 10) \o Digit(n % 10)

\* %.f of float64(s)/float64(n)*100: round to nearest, ties to even; 0/0 is NaN
Percent(s, n) ==
    IF n = 0 THEN "NaN"
    ELSE LET q == (100 * s) \div n
             r == (100 * s) % n
         IN  IF 2 * r < n THEN Itoa(q)
             ELSE IF 2 * r > n THEN Itoa(q + 1)
             ELSE IF q % 2 = 0 THEN Itoa(q) ELSE Itoa(q + 1)

\* fmt.Sprintf("attempt %d", attempt+1)
AttemptSpanName(k) == "attempt " \o Itoa(k)

\* fmt.Sprintf("model: %s", model)
ModelSpanName(m) == "model: " \o m

\* fmt.Fprintf(report, "## Attempt %d\n", attempt+1); fmt.Fprintln(report)
AttemptHeader(k) == <<"## Attempt " \o Itoa(k), "">>

\* fmt.Errorf("unknown evaluation: %s", eval)
UnknownEvaluation(eval) == <<"unknown evaluation: " \o eval>>

\* mutant: the error is stored without the "ERROR: " prefix
ErrorStringBare(err) == err

\* fmt.Sprintf("ERROR: %s", err)
ErrorString(err) == <<"ERROR: " \o err[1]>>

\* "SUCCESS RATE: %d/%d (%.f%%)\n"
SuccessRateLine(s, n) ==
    "SUCCESS RATE: " \o Itoa(s) \o "/" \o Itoa(n) \o " (" \o Percent(s, n) \o "%)"

-----------------------------------------------------------------------------
(* The evaluation collaborator: eval.Report and eval.Succeeded of the       *)
(* handle built by w.evaluate for (attempt+1, w.Model, w.SystemPrompt).     *)

\* the narrative Report renders for this run context
EvalReportText(w, k) ==
    "report of attempt " \o Itoa(k) \o " model=" \o w.Model \o
    " prompt=" \o w.SystemPrompt

\* the error Report fails with
ReportError(w, k) == <<"render failed: attempt " \o Itoa(k) \o " " \o w.Model>>

\* the error Succeeded fails with
SucceededError(w, k) == <<"succeeded failed: attempt " \o Itoa(k) \o " " \o w.Model>>

-----------------------------------------------------------------------------
(* Records *)

\* New(model, attempts, systemPrompt)
New(model, attempts, systemPrompt) ==
    [Model |-> model, Attempts |-> attempts, SystemPrompt |-> systemPrompt]

\* a span: how often it was begun and ended, and the error it was ended with
NoSpan == [name |-> "", begun |-> 0, ended |-> 0, err |-> NoErr]

\* an attempt goroutine before it is launched
IdleRunner ==
    [pc |-> "idle", report |-> <<>>, rerr |-> NoErr, tmp |-> 0,
     reported |-> "none", succeeded |-> "none", span |-> NoSpan]

\* an Evaluate call that has not been made
NoCall ==
    [pc |-> "none", eval |-> "", reports |-> <<>>, wg |-> 0, successCount |-> 0,
     attempt |-> 0, ret |-> <<>>, err |-> NoErr]

IdleModelRun == [pc |-> "idle", span |-> NoSpan]

Init ==
    /\ heap \in {(0 :> New(m, n, p)) :
                    m \in InputModels, n \in 0..MaxAttempts, p \in InitPrompts}
    /\ caller = [pc |-> "idle", op |-> "", name |-> "",
                 before |-> New("", 0, ""), prompt |-> "", ret |-> -1,
                 result |-> <<>>, err |-> NoErr, cancelled |-> FALSE]
    /\ calls = [c \in Calls |-> NoCall]
    /\ runners = [c \in Calls |-> <<>>]
    /\ fan = [reports |-> <<>>, wg |-> 0, i |-> 0, pc |-> "none"]
    /\ mrun = [i \in 1..K |-> IdleModelRun]

-----------------------------------------------------------------------------
(* Workspace.WithSystemPrompt *)

WithSystemPrompt(prompt) ==
    /\ caller.pc = "idle"
    /\ heap' = [heap EXCEPT ![0].SystemPrompt = prompt]
    /\ caller' = [caller EXCEPT !.pc = "done", !.op = "WithSystemPrompt",
                                !.before = heap[0], !.prompt = prompt, !.ret = 0]
    /\ UNCHANGED <<calls, runners, fan, mrun>>

-----------------------------------------------------------------------------
(* Workspace.Evaluate *)

\* the caller calls w.Evaluate(ctx, eval)
CallEvaluate(eval) ==
    /\ caller.pc = "idle"
    /\ caller' = [caller EXCEPT !.pc = "called", !.op = "Evaluate", !.name = eval]
    /\ calls' = [calls EXCEPT ![0] = [NoCall EXCEPT !.pc = "entered", !.eval = eval]]
    /\ UNCHANGED <<heap, runners, fan, mrun>>

\* mutant: the lookup's ok flag is ignored, the attempts are launched anyway
LookupNoCheck(c) ==
    /\ calls[c].pc = "entered"
    /\ calls' = [calls EXCEPT ![c].pc = "launch",
                              ![c].reports = [k \in 1..heap[c].Attempts |-> <<>>],
                              ![c].wg = 0, ![c].successCount = 0, ![c].attempt = 0]
    /\ runners' = [runners EXCEPT ![c] = [k \in 1..heap[c].Attempts |-> IdleRunner]]
    /\ UNCHANGED <<heap, caller, fan, mrun>>

\* mutant: the counter is one package-level variable that no call resets
LookupSharedCounter(c) ==
    /\ calls[c].pc = "entered"
    /\ IF calls[c].eval \notin evals
       THEN /\ calls' = [calls EXCEPT ![c].pc = "returned", ![c].ret = <<>>,
                                      ![c].err = UnknownEvaluation(calls[c].eval)]
            /\ UNCHANGED runners
       ELSE /\ calls' = [calls EXCEPT ![c].pc = "launch",
                                      ![c].reports = [k \in 1..heap[c].Attempts |-> <<>>],
                                      ![c].wg = 0,
                                      ![c].successCount =
                                          IF c = 0 THEN 0
                                          ELSE calls[c - 1].successCount,
                                      ![c].attempt = 0]
            /\ runners' = [runners EXCEPT
                              ![c] = [k \in 1..heap[c].Attempts |-> IdleRunner]]
    /\ UNCHANGED <<heap, caller, fan, mrun>>

\* mutant: a workspace without attempts is rejected like an unknown name
LookupRejectsZero(c) ==
    /\ calls[c].pc = "entered"
    /\ IF calls[c].eval \notin evals \/ heap[c].Attempts = 0
       THEN /\ calls' = [calls EXCEPT ![c].pc = "returned", ![c].ret = <<>>,
                                      ![c].err = UnknownEvaluation(calls[c].eval)]
            /\ UNCHANGED runners
       ELSE /\ calls' = [calls EXCEPT ![c].pc = "launch",
                                      ![c].reports = [k \in 1..heap[c].Attempts |-> <<>>],
                                      ![c].wg = 0, ![c].successCount = 0,
                                      ![c].attempt = 0]
            /\ runners' = [runners EXCEPT
                              ![c] = [k \in 1..heap[c].Attempts |-> IdleRunner]]
    /\ UNCHANGED <<heap, caller, fan, mrun>>

\* evalFn, ok := evals[eval]; if !ok return; reports := make(...); wg; successCount
Lookup(c) ==
    /\ calls[c].pc = "entered"
    /\ IF calls[c].eval \notin evals
       THEN /\ calls' = [calls EXCEPT ![c].pc = "returned", ![c].ret = <<>>,
                                      ![c].err = UnknownEvaluation(calls[c].eval)]
            /\ UNCHANGED runners
       ELSE /\ calls' = [calls EXCEPT ![c].pc = "launch",
                                      ![c].reports = [k \in 1..heap[c].Attempts |-> <<>>],
                                      ![c].wg = 0, ![c].successCount = 0,
                                      ![c].attempt = 0]
            /\ runners' = [runners EXCEPT
                              ![c] = [k \in 1..heap[c].Attempts |-> IdleRunner]]
    /\ UNCHANGED <<heap, caller, fan, mrun>>

\* one iteration of the loop: wg.Add(1); go func() {...}()
Launch(c) ==
    /\ calls[c].pc = "launch"
    /\ calls[c].attempt < heap[c].Attempts
    /\ calls' = [calls EXCEPT ![c].wg = @ + 1, ![c].attempt = @ + 1]
    /\ runners' = [runners EXCEPT ![c][calls[c].attempt + 1].pc = "start"]
    /\ UNCHANGED <<heap, caller, fan, mrun>>

\* Tracer().Start(ctx, "attempt k"); the header; eval := w.evaluate(attempt, evalFn)
StartAttempt(c, k) ==
    /\ runners[c][k].pc = "start"
    /\ runners' = [runners EXCEPT
                      ![c][k].pc = "report",
                      ![c][k].span = [name |-> AttemptSpanName(k),
                                      begun |-> runners[c][k].span.begun + 1,
                                      ended |-> 0, err |-> NoErr],
                      ![c][k].report = AttemptHeader(k)]
    /\ UNCHANGED <<heap, caller, calls, fan, mrun>>

\* mutant: a render failure makes the whole call return that error at once
ReportAborts(c, k) ==
    /\ runners[c][k].pc = "report"
    /\ \/ /\ runners' = [runners EXCEPT
                            ![c][k].pc = "done",
                            ![c][k].reported = "err",
                            ![c][k].rerr = ReportError(heap[c], k)]
          /\ calls' = [calls EXCEPT ![c].pc = "returned", ![c].ret = <<>>,
                                    ![c].err = ReportError(heap[c], k)]
       \/ /\ runners' = [runners EXCEPT
                            ![c][k].pc = "succeeded",
                            ![c][k].reported = "ok",
                            ![c][k].report = @ \o <<EvalReportText(heap[c], k)>>]
          /\ UNCHANGED calls
    /\ UNCHANGED <<heap, caller, fan, mrun>>

\* mutant: a render failure leaves the goroutine without ending its span
ReportSkipsEnd(c, k) ==
    /\ runners[c][k].pc = "report"
    /\ \/ runners' = [runners EXCEPT
                         ![c][k].pc = "defer_done",
                         ![c][k].reported = "err",
                         ![c][k].rerr = ReportError(heap[c], k)]
       \/ runners' = [runners EXCEPT
                         ![c][k].pc = "succeeded",
                         ![c][k].reported = "ok",
                         ![c][k].report = @ \o <<EvalReportText(heap[c], k)>>]
    /\ UNCHANGED <<heap, caller, calls, fan, mrun>>

\* mutant: a render failure is recorded but the goroutine runs on
ReportContinues(c, k) ==
    /\ runners[c][k].pc = "report"
    /\ \/ runners' = [runners EXCEPT
                         ![c][k].pc = "succeeded",
                         ![c][k].reported = "err",
                         ![c][k].rerr = ReportError(heap[c], k)]
       \/ runners' = [runners EXCEPT
                         ![c][k].pc = "succeeded",
                         ![c][k].reported = "ok",
                         ![c][k].report = @ \o <<EvalReportText(heap[c], k)>>]
    /\ UNCHANGED <<heap, caller, calls, fan, mrun>>

\* evalReport, err := eval.Report(ctx)
Report(c, k) ==
    /\ runners[c][k].pc = "report"
    /\ \/ runners' = [runners EXCEPT
                         ![c][k].pc = "defer_slot",
                         ![c][k].reported = "err",
                         ![c][k].rerr = ReportError(heap[c], k)]
       \/ runners' = [runners EXCEPT
                         ![c][k].pc = "succeeded",
                         ![c][k].reported = "ok",
                         ![c][k].report = @ \o <<EvalReportText(heap[c], k)>>]
    /\ UNCHANGED <<heap, caller, calls, fan, mrun>>

\* mutant: a failed success check falls through to the increment
SucceededCountsError(c, k) ==
    /\ runners[c][k].pc = "succeeded"
    /\ \/ runners' = [runners EXCEPT
                         ![c][k].pc = "inc_read",
                         ![c][k].succeeded = "err",
                         ![c][k].rerr = SucceededError(heap[c], k)]
       \/ runners' = [runners EXCEPT
                         ![c][k].pc = "defer_slot", ![c][k].succeeded = "false"]
       \/ runners' = [runners EXCEPT
                         ![c][k].pc = "inc_read", ![c][k].succeeded = "true"]
    /\ UNCHANGED <<heap, caller, calls, fan, mrun>>

\* succeeded, err := eval.Succeeded(ctx)
Succeeded(c, k) ==
    /\ runners[c][k].pc = "succeeded"
    /\ \/ runners' = [runners EXCEPT
                         ![c][k].pc = "defer_slot",
                         ![c][k].succeeded = "err",
                         ![c][k].rerr = SucceededError(heap[c], k)]
       \/ runners' = [runners EXCEPT
                         ![c][k].pc = "defer_slot", ![c][k].succeeded = "false"]
       \/ runners' = [runners EXCEPT
                         ![c][k].pc = "inc_read", ![c][k].succeeded = "true"]
    /\ UNCHANGED <<heap, caller, calls, fan, mrun>>

\* successCount++ is a plain load ...
IncRead(c, k) ==
    /\ runners[c][k].pc = "inc_read"
    /\ runners' = [runners EXCEPT ![c][k].pc = "inc_write",
                                  ![c][k].tmp = calls[c].successCount]
    /\ UNCHANGED <<heap, caller, calls, fan, mrun>>

\* ... followed by a plain store
IncWrite(c, k) ==
    /\ runners[c][k].pc = "inc_write"
    /\ calls' = [calls EXCEPT ![c].successCount = runners[c][k].tmp + 1]
    /\ runners' = [runners EXCEPT ![c][k].pc = "defer_slot"]
    /\ UNCHANGED <<heap, caller, fan, mrun>>

\* the first slot nothing was written to yet (every section has a header)
FirstEmpty(reports) ==
    CHOOSE j \in 1..Len(reports) :
        reports[j] = <<>> /\ \A h \in 1..(j - 1) : reports[h] # <<>>

\* mutant: the section goes to the next free slot, in completion order
DeferSlotAppend(c, k) ==
    /\ runners[c][k].pc = "defer_slot"
    /\ calls' = [calls EXCEPT
                    ![c].reports[FirstEmpty(calls[c].reports)] = runners[c][k].report]
    /\ runners' = [runners EXCEPT ![c][k].pc = "defer_span"]
    /\ UNCHANGED <<heap, caller, fan, mrun>>

\* mutant: the goroutines share the loop variable and write the slot it names
DeferSlotShared(c, k) ==
    /\ runners[c][k].pc = "defer_slot"
    /\ calls' = [calls EXCEPT
                    ![c].reports[calls[c].attempt] = runners[c][k].report]
    /\ runners' = [runners EXCEPT ![c][k].pc = "defer_span"]
    /\ UNCHANGED <<heap, caller, fan, mrun>>

\* defer func() { reports[attempt] = report.String() }()
DeferSlot(c, k) ==
    /\ runners[c][k].pc = "defer_slot"
    /\ calls' = [calls EXCEPT ![c].reports[k] = runners[c][k].report]
    /\ runners' = [runners EXCEPT ![c][k].pc = "defer_span"]
    /\ UNCHANGED <<heap, caller, fan, mrun>>

\* mutant: the span is ended without the attempt's error
DeferEndSpanNil(c, k) ==
    /\ runners[c][k].pc = "defer_span"
    /\ runners' = [runners EXCEPT ![c][k].pc = "defer_done",
                                  ![c][k].span.ended = @ + 1]
    /\ UNCHANGED <<heap, caller, calls, fan, mrun>>

\* defer telemetry.End(span, func() error { return rerr })
DeferEndSpan(c, k) ==
    /\ runners[c][k].pc = "defer_span"
    /\ runners' = [runners EXCEPT
                      ![c][k].pc = "defer_done",
                      ![c][k].span.ended = @ + 1,
                      ![c][k].span.err = runners[c][k].rerr]
    /\ UNCHANGED <<heap, caller, calls, fan, mrun>>

\* defer wg.Done()
DeferDone(c, k) ==
    /\ runners[c][k].pc = "defer_done"
    /\ runners' = [runners EXCEPT ![c][k].pc = "done"]
    /\ calls' = [calls EXCEPT ![c].wg = @ - 1]
    /\ UNCHANGED <<heap, caller, fan, mrun>>

\* mutant: the coordinator goes on after the loop without waiting
WaitEarly(c) ==
    /\ calls[c].pc = "launch"
    /\ calls[c].attempt = heap[c].Attempts
    /\ calls' = [calls EXCEPT ![c].pc = "assemble"]
    /\ UNCHANGED <<heap, caller, runners, fan, mrun>>

\* wg.Wait() returns once the counter is zero
Wait(c) ==
    /\ calls[c].pc = "launch"
    /\ calls[c].attempt = heap[c].Attempts
    /\ calls[c].wg = 0
    /\ calls' = [calls EXCEPT ![c].pc = "assemble"]
    /\ UNCHANGED <<heap, caller, runners, fan, mrun>>

RECURSIVE Flatten(_)
\* for _, report := range reports { fmt.Fprint(finalReport, report) }
Flatten(reports) ==
    IF reports = <<>> THEN <<>> ELSE Head(reports) \o Flatten(Tail(reports))

\* the text Evaluate builds after the join
FinalReport(w, reports, successCount) ==
    <<"# Model: " \o w.Model, "", "## All Attempts", "">>
    \o Flatten(reports)
    \o <<"## Final Report", "", SuccessRateLine(successCount, w.Attempts)>>

\* finalReport := ...; return finalReport.String(), nil
Assemble(c) ==
    /\ calls[c].pc = "assemble"
    /\ calls' = [calls EXCEPT
                    ![c].pc = "returned",
                    ![c].ret = FinalReport(heap[c], calls[c].reports,
                                           calls[c].successCount),
                    ![c].err = NoErr]
    /\ UNCHANGED <<heap, caller, runners, fan, mrun>>

\* Evaluate's results reach the caller
ReturnEvaluate ==
    /\ caller.pc = "called"
    /\ caller.op = "Evaluate"
    /\ calls[0].pc = "returned"
    /\ caller' = [caller EXCEPT !.pc = "done", !.result = calls[0].ret,
                                !.err = calls[0].err]
    /\ UNCHANGED <<heap, calls, runners, fan, mrun>>

-----------------------------------------------------------------------------
(* Workspace.EvaluateAllModelsOnce *)

\* the caller calls w.EvaluateAllModelsOnce(ctx, name); reports := make(...); wg
CallEvaluateAllModelsOnce(name) ==
    /\ caller.pc = "idle"
    /\ caller' = [caller EXCEPT !.pc = "called", !.op = "EvaluateAllModelsOnce",
                                !.name = name]
    /\ fan' = [reports |-> [i \in 1..K |-> <<>>], wg |-> 0, i |-> 0, pc |-> "launch"]
    /\ UNCHANGED <<heap, calls, runners, mrun>>

\* one iteration of the loop over knownModels: wg.Add(1); go func() {...}()
LaunchModel ==
    /\ fan.pc = "launch"
    /\ fan.i < K
    /\ fan' = [fan EXCEPT !.wg = @ + 1, !.i = @ + 1]
    /\ mrun' = [mrun EXCEPT ![fan.i + 1].pc = "start"]
    /\ UNCHANGED <<heap, caller, calls, runners>>

\* mutant: the per-model workspace does not inherit the system prompt
StartModelNoPrompt(i) ==
    /\ mrun[i].pc = "start"
    /\ mrun' = [mrun EXCEPT
                   ![i].pc = "evaluate",
                   ![i].span = [name |-> ModelSpanName(knownModels[i]),
                                begun |-> mrun[i].span.begun + 1,
                                ended |-> 0, err |-> NoErr]]
    /\ heap' = heap @@ (i :> New(knownModels[i], 1, ""))
    /\ calls' = [calls EXCEPT ![i] = [NoCall EXCEPT !.pc = "entered",
                                                    !.eval = caller.name]]
    /\ UNCHANGED <<caller, runners, fan>>

\* Tracer().Start(ctx, "model: m"); New(model, 1, w.SystemPrompt).Evaluate(ctx, name)
StartModel(i) ==
    /\ mrun[i].pc = "start"
    /\ mrun' = [mrun EXCEPT
                   ![i].pc = "evaluate",
                   ![i].span = [name |-> ModelSpanName(knownModels[i]),
                                begun |-> mrun[i].span.begun + 1,
                                ended |-> 0, err |-> NoErr]]
    /\ heap' = heap @@ (i :> New(knownModels[i], 1, heap[0].SystemPrompt))
    /\ calls' = [calls EXCEPT ![i] = [NoCall EXCEPT !.pc = "entered",
                                                    !.eval = caller.name]]
    /\ UNCHANGED <<caller, runners, fan>>

\* mutant: the model span is ended without the run's error
EndModelSpanNil(i) ==
    /\ mrun[i].pc = "evaluate"
    /\ calls[i].pc = "returned"
    /\ mrun' = [mrun EXCEPT ![i].pc = "slot", ![i].span.ended = @ + 1]
    /\ UNCHANGED <<heap, caller, calls, runners, fan>>

\* report, err := ...Evaluate(ctx, name) returned; telemetry.End(span, err)
EndModelSpan(i) ==
    /\ mrun[i].pc = "evaluate"
    /\ calls[i].pc = "returned"
    /\ mrun' = [mrun EXCEPT ![i].pc = "slot",
                            ![i].span.ended = @ + 1,
                            ![i].span.err = calls[i].err]
    /\ UNCHANGED <<heap, caller, calls, runners, fan>>

\* mutant: the outcome goes to the next free slot, in completion order
ModelSlotAppend(i) ==
    /\ mrun[i].pc = "slot"
    /\ fan' = [fan EXCEPT !.reports[FirstEmpty(fan.reports)] =
                   IF calls[i].err # NoErr THEN ErrorString(calls[i].err)
                   ELSE calls[i].ret]
    /\ mrun' = [mrun EXCEPT ![i].pc = "defer_done"]
    /\ UNCHANGED <<heap, caller, calls, runners>>

\* if err != nil { reports[i] = "ERROR: ..." } else { reports[i] = report }
ModelSlot(i) ==
    /\ mrun[i].pc = "slot"
    /\ fan' = [fan EXCEPT !.reports[i] =
                   IF calls[i].err # NoErr THEN ErrorString(calls[i].err)
                   ELSE calls[i].ret]
    /\ mrun' = [mrun EXCEPT ![i].pc = "defer_done"]
    /\ UNCHANGED <<heap, caller, calls, runners>>

\* defer wg.Done()
ModelDone(i) ==
    /\ mrun[i].pc = "defer_done"
    /\ mrun' = [mrun EXCEPT ![i].pc = "done"]
    /\ fan' = [fan EXCEPT !.wg = @ - 1]
    /\ UNCHANGED <<heap, caller, calls, runners>>

\* mutant: the fan-out gives up waiting and returns what it has
ReturnAllModelsTimeout ==
    /\ fan.pc = "launch"
    /\ fan.i = K
    /\ fan' = [fan EXCEPT !.pc = "returned"]
    /\ caller' = [caller EXCEPT !.pc = "done", !.result = fan.reports,
                                !.err = NoErr]
    /\ UNCHANGED <<heap, calls, runners, mrun>>

\* wg.Wait(); return reports, nil
ReturnAllModels ==
    /\ fan.pc = "launch"
    /\ fan.i = K
    /\ fan.wg = 0
    /\ fan' = [fan EXCEPT !.pc = "returned"]
    /\ caller' = [caller EXCEPT !.pc = "done", !.result = fan.reports,
                                !.err = NoErr]
    /\ UNCHANGED <<heap, calls, runners, mrun>>

-----------------------------------------------------------------------------

\* the steps of Evaluate call c: its coordinator and its attempt goroutines
Evaluating(c) ==
    \/ Lookup(c)
    \/ Launch(c)
    \/ \E k \in 1..Len(runners[c]) : StartAttempt(c, k)
    \/ \E k \in 1..Len(runners[c]) : Report(c, k)
    \/ \E k \in 1..Len(runners[c]) : Succeeded(c, k)
    \/ \E k \in 1..Len(runners[c]) : IncRead(c, k)
    \/ \E k \in 1..Len(runners[c]) : IncWrite(c, k)
    \/ \E k \in 1..Len(runners[c]) : DeferSlot(c, k)
    \/ \E k \in 1..Len(runners[c]) : DeferEndSpan(c, k)
    \/ \E k \in 1..Len(runners[c]) : DeferDone(c, k)
    \/ Wait(c)
    \/ Assemble(c)

\* the caller's statements around a direct Evaluate call, and WithSystemPrompt
Direct ==
    \/ \E p \in InputPrompts : WithSystemPrompt(p)
    \/ \E n \in InputNames : CallEvaluate(n)
    \/ ReturnEvaluate

\* the steps of model goroutine i that touch nothing another goroutine reads:
\* its span, the workspace it builds and the Evaluate call it makes
Private(i) ==
    \/ StartModel(i)
    \/ Evaluating(i)
    \/ EndModelSpan(i)

\* ENABLED Evaluating(c), from the guards of its actions
EvaluatingEnabled(c) ==
    \/ calls[c].pc \in {"entered", "assemble"}
    \/ /\ calls[c].pc = "launch"
       /\ \/ calls[c].attempt < heap[c].Attempts
          \/ calls[c].wg = 0
          \/ \E k \in 1..Len(runners[c]) : runners[c][k].pc \notin {"idle", "done"}

\* ENABLED Private(i), from the guards of its actions
PrivateEnabled(i) ==
    \/ mrun[i].pc = "start"
    \/ mrun[i].pc = "evaluate" /\ (calls[i].pc = "returned" \/ EvaluatingEnabled(i))

(* The steps of Private(i) read and write only the goroutine's own span, its *)
(* workspace heap[i] and the locals of its Evaluate call (calls[i],          *)
(* runners[i]); no other goroutine reads them before the join.  They commute *)
(* with every step of the other goroutines, so they are scheduled before the *)
(* steps on the state the goroutines share (the loop, the slots of reports   *)
(* and the WaitGroup): the interleavings left out differ from the explored   *)
(* ones only in the order of independent steps.  The goroutines of a direct  *)
(* Evaluate call interleave freely.                                          *)
Quiet == \A i \in 1..K : ~ PrivateEnabled(i)

-----------------------------------------------------------------------------
(* Cancellation of the ambient context *)

\* the error of a call that gave up because its context was cancelled
Canceled == <<"context canceled">>

\* the caller cancels the ctx it gave to the call that is under way
Cancel ==
    /\ caller.pc = "called"
    /\ ~caller.cancelled
    /\ caller' = [caller EXCEPT !.cancelled = TRUE]
    /\ UNCHANGED <<heap, calls, runners, fan, mrun>>

\* mutant: the attempt's calls get a context of their own, never cancelled
CancelledBackground(c, k) == FALSE

\* ctx, span := Tracer().Start(ctx, ...): the ctx handed to Report and Succeeded
\* derives from the one given to Evaluate and is cancelled when that one is
Cancelled(c, k) == caller.cancelled

\* a pending Report or Succeeded call returns the cancellation as its error
ReturnCancelled(c, k) ==
    /\ Cancelled(c, k)
    /\ runners[c][k].pc \in {"report", "succeeded"}
    /\ runners' = [runners EXCEPT
                      ![c][k].pc = "defer_slot",
                      ![c][k].rerr = Canceled,
                      ![c][k].reported =
                          IF runners[c][k].pc = "report" THEN "err" ELSE @,
                      ![c][k].succeeded =
                          IF runners[c][k].pc = "succeeded" THEN "err" ELSE @]
    /\ UNCHANGED <<heap, caller, calls, fan, mrun>>

-----------------------------------------------------------------------------

\* a caller that uses Evaluate and WithSystemPrompt
NextEvaluate ==
    \/ Evaluating(0)
    \/ \E p \in InputPrompts : WithSystemPrompt(p)
    \/ \E n \in InputNames : CallEvaluate(n)
    \/ ReturnEvaluate

\* a caller that uses any of the three operations
Next ==
    \/ NextEvaluate
    \/ \E n \in InputNames : CallEvaluateAllModelsOnce(n)
    \/ \E i \in 1..K : Private(i)
    \/ (Quiet /\ LaunchModel)
    \/ \E i \in 1..K : (Quiet /\ ModelSlot(i))
    \/ \E i \in 1..K : (Quiet /\ ModelDone(i))
    \/ ReturnAllModels

\* New's default number of attempts
DefaultAttempts == 2

InitModels == Init /\ heap[0].Attempts = DefaultAttempts

SpecEvaluate == Init /\ [][NextEvaluate]_vars

SpecModels == InitModels /\ [][Next]_vars

(* Every step moves some goroutine forward and none is ever undone or       *)
(* disabled by another goroutine, so weak fairness of the next-state action *)
(* is what a scheduler that runs every runnable goroutine gives when every  *)
(* Report and Succeeded call returns.                                       *)
SpecFair == InitModels /\ [][Next]_vars /\ WF_vars(Next)

\* the steps of a direct Evaluate call other than the return of a Report or
\* Succeeded call whose context is not cancelled
Scheduled ==
    \/ Lookup(0)
    \/ Launch(0)
    \/ \E k \in 1..Len(runners[0]) : StartAttempt(0, k)
    \/ \E k \in 1..Len(runners[0]) : ReturnCancelled(0, k)
    \/ \E k \in 1..Len(runners[0]) : IncRead(0, k)
    \/ \E k \in 1..Len(runners[0]) : IncWrite(0, k)
    \/ \E k \in 1..Len(runners[0]) : DeferSlot(0, k)
    \/ \E k \in 1..Len(runners[0]) : DeferEndSpan(0, k)
    \/ \E k \in 1..Len(runners[0]) : DeferDone(0, k)
    \/ Wait(0)
    \/ Assemble(0)
    \/ ReturnEvaluate

\* a direct Evaluate call whose context the caller may cancel
NextCancel ==
    \/ NextEvaluate
    \/ Cancel
    \/ \E k \in 1..Len(runners[0]) : ReturnCancelled(0, k)

(* A Report or Succeeded call may take for ever, so no fairness is assumed  *)
(* for its return; a call whose context is cancelled returns the            *)
(* cancellation, and the goroutines' own statements are scheduled.          *)
SpecCancel == InitModels /\ [][NextCancel]_vars /\ WF_vars(Scheduled)

-----------------------------------------------------------------------------
(* Vocabulary of the properties *)

\* attempt k of call c failed in Report or in Succeeded
Failed(c, k) ==
    runners[c][k].reported = "err" \/ runners[c][k].succeeded = "err"

\* the section runner k of call c produces from its own run context
OwnSection(c, k) ==
    <<"## Attempt " \o Itoa(k), "">>
    \o (IF runners[c][k].reported = "ok"
        THEN <<EvalReportText(heap[c], k)>> ELSE <<>>)

\* the "## Attempt k" lines of a text, in the order they appear
AttemptHeaders(text, n) ==
    SelectSeq(text, LAMBDA l : l \in {"## Attempt " \o Itoa(k) : k \in 1..n})

\* the attempt sections of a final report: what lies between the four lines
\* of the preamble and the three lines of the final part
Body(text) == SubSeq(text, 5, Len(text) - 3)

\* some line of the text is the error's message
Includes(text, err) == \E l \in 1..Len(text) : text[l] = err[1]

\* the attempts of call c whose Succeeded call returned true
TrueAttempts(c) ==
    {k \in 1..Len(runners[c]) : runners[c][k].succeeded = "true"}

\* the attempts of call c that have stored their increment
Counted(c) ==
    {k \in TrueAttempts(c) :
        runners[c][k].pc \in {"defer_slot", "defer_span", "defer_done", "done"}}

\* a direct Evaluate call of a registered evaluation has returned
EvaluateReturned == calls[0].pc = "returned" /\ calls[0].eval \in evals

\* EvaluateAllModelsOnce has returned to the caller
AllModelsReturned == caller.pc = "done" /\ caller.op = "EvaluateAllModelsOnce"

\* the outcome of model i's run, as EvaluateAllModelsOnce is to report it
ModelOutcome(i) ==
    IF calls[i].err # NoErr THEN <<"ERROR: " \o calls[i].err[1]>> ELSE calls[i].ret

-----------------------------------------------------------------------------
(* C1: for N >= 1 and a registered evaluation, in every interleaving the    *)
(* report Evaluate returns holds exactly N attempt sections, and section k  *)
(* is the one runner k produced: the headers read "## Attempt 1" ..         *)
(* "## Attempt N" in this order and the body is the runners' sections       *)
(* concatenated in index order.                                             *)
C1_SectionsInIndexOrder ==
    (EvaluateReturned /\ heap[0].Attempts >= 1) =>
        LET n == heap[0].Attempts
            text == calls[0].ret
        IN  /\ AttemptHeaders(text, n) = [k \in 1..n |-> "## Attempt " \o Itoa(k)]
            /\ Body(text) = Flatten([k \in 1..n |-> OwnSection(0, k)])

\* Evaluate has returned a report of at least two rendered sections
C1_Witness ==
    /\ caller.pc = "done" /\ caller.op = "Evaluate" /\ caller.err = NoErr
    /\ heap[0].Attempts >= 2
    /\ \A k \in 1..heap[0].Attempts : runners[0][k].reported = "ok"
    /\ Len(caller.result) = 7 + 3 * heap[0].Attempts

(* C2: the numerator of the "SUCCESS RATE: s/N" line is exactly the number  *)
(* of attempts whose Succeeded call returned true, and the denominator is   *)
(* N, in every interleaving.                                                *)
C2_ExactSuccessCount ==
    (EvaluateReturned /\ heap[0].Attempts >= 1) =>
        calls[0].ret[Len(calls[0].ret)] =
            "SUCCESS RATE: " \o Itoa(Cardinality(TrueAttempts(0))) \o "/"
            \o Itoa(heap[0].Attempts) \o " ("
            \o Percent(Cardinality(TrueAttempts(0)), heap[0].Attempts) \o "%)"

(* C3: Evaluate with a name that is not registered returns the error        *)
(* "unknown evaluation: <name>" and no report text, and in no state of such *)
(* a call is there an attempt goroutine, a span or a report slot: the call  *)
(* goes from its entry straight to its return.                              *)
C3_UnknownFailsFast ==
    (calls[0].pc # "none" /\ calls[0].eval \notin evals) =>
        /\ calls[0].pc \in {"entered", "returned"}
        /\ runners[0] = <<>>
        /\ calls[0].reports = <<>>
        /\ calls[0].wg = 0
        /\ calls[0].pc = "returned" =>
              /\ calls[0].err = <<"unknown evaluation: " \o calls[0].eval>>
              /\ calls[0].ret = <<>>
        /\ caller.pc = "done" =>
              /\ caller.err = <<"unknown evaluation: " \o caller.name>>
              /\ caller.result = <<>>

\* Evaluate has returned to a caller that passed an unregistered name
C3_Witness ==
    /\ caller.pc = "done" /\ caller.op = "Evaluate"
    /\ caller.name \notin evals
    /\ caller.err # NoErr

(* C4: when the Report or Succeeded call of one attempt fails, Evaluate     *)
(* still returns a nil error and the complete report: every runner has run  *)
(* to its end, every attempt that did not fail has made both calls, and     *)
(* every slot holds its own runner's section.                               *)
C4_FailureIsLocal ==
    (calls[0].pc = "returned" /\ calls[0].eval \in evals
        /\ \E j \in 1..Len(runners[0]) : Failed(0, j)) =>
        LET n == heap[0].Attempts
        IN  /\ calls[0].err = NoErr
            /\ Len(runners[0]) = n
            /\ \A k \in 1..n :
                  /\ runners[0][k].pc = "done"
                  /\ calls[0].reports[k] = OwnSection(0, k)
                  /\ ~Failed(0, k) =>
                        /\ runners[0][k].reported = "ok"
                        /\ runners[0][k].succeeded \in {"true", "false"}
            /\ calls[0].ret =
                  FinalReport(heap[0], [k \in 1..n |-> OwnSection(0, k)],
                              calls[0].successCount)

\* Evaluate has returned although one attempt failed to render, and another
\* attempt of the same call succeeded
C4_Witness ==
    /\ calls[0].pc = "returned" /\ calls[0].err = NoErr
    /\ \E j, k \in 1..Len(runners[0]) :
          /\ runners[0][j].reported = "err"
          /\ runners[0][k].succeeded = "true"

(* C5: EvaluateAllModelsOnce returns exactly K outcomes and outcome i is    *)
(* the outcome of the run for knownModels[i] (its report, headed by that    *)
(* model's name, or its error string), in every completion order.           *)
C5_OutcomesInListOrder ==
    AllModelsReturned =>
        /\ Len(caller.result) = K
        /\ \A i \in 1..K :
              /\ heap[i].Model = knownModels[i]
              /\ caller.result[i] = ModelOutcome(i)
              /\ calls[i].err = NoErr =>
                    caller.result[i][1] = "# Model: " \o knownModels[i]

\* EvaluateAllModelsOnce has returned the reports of a registered evaluation
C5_Witness ==
    /\ AllModelsReturned
    /\ caller.name \in evals
    /\ \A i \in 1..K : Len(caller.result[i]) >= 7

(* C6: once the slot of a model whose run returned an error is written, it  *)
(* holds "ERROR: <message>" with that error's message; the slot of every    *)
(* other model is either not written yet or holds that model's own outcome; *)
(* and when EvaluateAllModelsOnce returns, all K runs have returned and all *)
(* K goroutines are done.                                                   *)
C6_ModelErrorIsLocal ==
    /\ \A i \in 1..K :
          (mrun[i].pc \in {"defer_done", "done"} /\ calls[i].err # NoErr) =>
              /\ fan.reports[i] = <<"ERROR: " \o calls[i].err[1]>>
              /\ \A j \in (1..K) \ {i} :
                    fan.reports[j] = <<>> \/ fan.reports[j] = ModelOutcome(j)
    /\ AllModelsReturned =>
          \A i \in 1..K : calls[i].pc = "returned" /\ mrun[i].pc = "done"

\* EvaluateAllModelsOnce has returned and a model's run had ended in an error
C6_Witness ==
    /\ AllModelsReturned
    /\ \E i \in 1..K : calls[i].err # NoErr /\ mrun[i].span.ended = 1

C8_CounterBounded ==
    (calls[0].pc \in {"launch", "assemble", "returned"} /\ calls[0].eval \in evals) =>
        /\ calls[0].successCount >= 0
        /\ calls[0].successCount <= Cardinality(Counted(0))
        /\ calls[0].successCount <= heap[0].Attempts
        /\ \A k \in 1..Len(runners[0]) : Failed(0, k) => k \notin Counted(0)
        /\ calls[0].pc = "returned" =>
              calls[0].ret[Len(calls[0].ret)] =
                  "SUCCESS RATE: " \o Itoa(calls[0].successCount) \o "/"
                  \o Itoa(heap[0].Attempts) \o " ("
                  \o Percent(calls[0].successCount, heap[0].Attempts) \o "%)"

\* Evaluate has returned with a failed attempt and a counted success
C8_Witness ==
    /\ calls[0].pc = "returned"
    /\ calls[0].successCount >= 1
    /\ \E k \in 1..Len(runners[0]) : runners[0][k].succeeded = "err"

(* C9: after c2 = c1.WithSystemPrompt(p), c2 carries p and c1's system      *)
(* prompt, model and attempts are what they were before the call.           *)
C9_ReceiverUnchanged ==
    (caller.pc = "done" /\ caller.op = "WithSystemPrompt") =>
        /\ heap[caller.ret].SystemPrompt = caller.prompt
        /\ heap[0] = caller.before

(* C10 as stated: an unknown evaluation name makes the top-level call       *)
(* return a non-nil error, for both entry points, and no per-model span and *)
(* no attempt is started.                                                   *)
C10_UnknownNameIsHardFailure ==
    (caller.pc = "done" /\ caller.op \in {"Evaluate", "EvaluateAllModelsOnce"}
        /\ caller.name \notin evals) =>
        /\ caller.err # NoErr
        /\ \A i \in 1..K : mrun[i].span.begun = 0
        /\ \A c \in Calls : runners[c] = <<>>

(* C10 as amended: with an unknown name no attempt is ever started, by      *)
(* either entry point.  Evaluate returns the error "unknown evaluation:     *)
(* <name>" and no report text.  EvaluateAllModelsOnce returns a nil error   *)
(* and K slots that each hold "ERROR: unknown evaluation: <name>", after    *)
(* starting one span per model and ending it with that error.               *)
C10_UnknownNamePerEntryPoint ==
    (caller.op \in {"Evaluate", "EvaluateAllModelsOnce"}
        /\ caller.name \notin evals) =>
        /\ \A c \in Calls : runners[c] = <<>>
        /\ (caller.pc = "done" /\ caller.op = "Evaluate") =>
              /\ caller.err = <<"unknown evaluation: " \o caller.name>>
              /\ caller.result = <<>>
              /\ \A i \in 1..K : mrun[i].span.begun = 0
        /\ (caller.pc = "done" /\ caller.op = "EvaluateAllModelsOnce") =>
              /\ caller.err = NoErr
              /\ caller.result =
                    [i \in 1..K |-> <<"ERROR: unknown evaluation: " \o caller.name>>]
              /\ \A i \in 1..K :
                    /\ mrun[i].span.name = "model: " \o knownModels[i]
                    /\ mrun[i].span.begun = 1
                    /\ mrun[i].span.ended = 1
                    /\ mrun[i].span.err = <<"unknown evaluation: " \o caller.name>>

\* EvaluateAllModelsOnce has returned to a caller that passed an unknown name
C10_Witness ==
    /\ AllModelsReturned
    /\ caller.name \notin evals
    /\ caller.err = NoErr
    /\ Len(caller.result) = K

(* C11: Evaluate is one join barrier: when the coordinator is past wg.Wait  *)
(* (where it reads the slots and the counter), every runner is done and     *)
(* every slot holds its runner's final text; the WaitGroup counts the       *)
(* launched runners that have not signalled.  Within a runner, on every     *)
(* exit path, the slot is written before the span is ended and the span is  *)
(* ended before wg.Done.                                                    *)
C11_JoinBarrier ==
    /\ calls[0].pc \in {"assemble", "returned"} /\ calls[0].eval \in evals =>
          /\ Len(runners[0]) = heap[0].Attempts
          /\ \A k \in 1..Len(runners[0]) :
                /\ runners[0][k].pc = "done"
                /\ calls[0].reports[k] = runners[0][k].report
    /\ calls[0].pc = "launch" =>
          calls[0].wg =
              Cardinality({k \in 1..Len(runners[0]) :
                              runners[0][k].pc \notin {"idle", "done"}})
    /\ \A k \in 1..Len(runners[0]) :
          LET r == runners[0][k]
              written == calls[0].reports[k] = r.report /\ r.report # <<>>
          IN  /\ r.pc \in {"idle", "start", "report", "succeeded", "inc_read",
                           "inc_write", "defer_slot"} =>
                    calls[0].reports[k] = <<>> /\ r.span.ended = 0
              /\ r.pc = "defer_span" => written /\ r.span.ended = 0
              /\ r.pc \in {"defer_done", "done"} => written /\ r.span.ended = 1

\* the coordinator is past the join and about to read the slots, after one
\* runner left early on a failure and another ran to the increment
C11_Witness ==
    /\ calls[0].pc = "assemble"
    /\ heap[0].Attempts >= 2
    /\ \E j, k \in 1..Len(runners[0]) :
          /\ runners[0][j].reported = "err"
          /\ runners[0][k].succeeded = "true"

(* C12: increments of successCount are synchronized: in no state are two    *)
(* attempt goroutines both between their load and their store of the        *)
(* counter, and the counter is never behind the number of goroutines that   *)
(* have finished their increment.                                           *)
C12_NoOverlap ==
    /\ \A j, k \in 1..Len(runners[0]) :
          (runners[0][j].pc = "inc_write" /\ runners[0][k].pc = "inc_write")
              => j = k
    /\ calls[0].pc = "launch" =>
          calls[0].successCount >=
              Cardinality({k \in 1..Len(runners[0]) :
                  /\ runners[0][k].succeeded = "true"
                  /\ runners[0][k].pc \in {"defer_slot", "defer_span",
                                           "defer_done", "done"}})

(* C13: each attempt index 1..N has exactly one goroutine, whose span and   *)
(* header carry that index; a slot reports[k] changes only in the deferred  *)
(* write of goroutine k, only once (from empty to that goroutine's text),   *)
(* and that step touches no other slot and no other goroutine; a goroutine  *)
(* step changes nothing of the call but its own slot, the counter and the   *)
(* WaitGroup that joins them; every slot is written when the call returns.  *)
C13_UniqueSlotOwner ==
    /\ [](\A k \in 1..Len(runners[0]) :
             /\ Len(runners[0]) = heap[0].Attempts
             /\ runners[0][k].span.begun <= 1
             /\ runners[0][k].pc \notin {"idle", "start"} =>
                   /\ runners[0][k].span.name = AttemptSpanName(k)
                   /\ runners[0][k].report[1] = AttemptHeader(k)[1]
             /\ calls[0].pc = "returned" => calls[0].reports[k] # <<>>)
    /\ [][Len(runners'[0]) = Len(runners[0]) =>
            \A k \in 1..Len(runners[0]) :
               /\ calls'[0].reports[k] # calls[0].reports[k] =>
                     /\ calls[0].reports[k] = <<>>
                     /\ runners[0][k].pc = "defer_slot"
                     /\ runners'[0][k].pc = "defer_span"
                     /\ calls'[0].reports[k] = runners[0][k].report
                     /\ \A j \in 1..Len(runners[0]) \ {k} :
                           calls'[0].reports[j] = calls[0].reports[j]
               /\ runners'[0][k] # runners[0][k] =>
                     /\ \A j \in 1..Len(runners[0]) \ {k} :
                           runners'[0][j] = runners[0][j]
                     /\ runners[0][k].pc # "idle" =>
                           /\ calls'[0] = [calls[0] EXCEPT
                                 !.reports[k] = calls'[0].reports[k],
                                 !.successCount = calls'[0].successCount,
                                 !.wg = calls'[0].wg]
                           /\ UNCHANGED <<heap, caller>>]_vars

\* three goroutines have each written their own slot and the call has
\* returned
C13_Witness ==
    /\ calls[0].pc = "returned" /\ calls[0].eval \in evals
    /\ heap[0].Attempts = 3
    /\ \A k \in 1..3 : /\ calls[0].reports[k] = runners[0][k].report
                       /\ calls[0].reports[k][1] = AttemptHeader(k)[1]

(* C14: in one attempt Report is called before Succeeded.  After a failed   *)
(* Report the attempt never calls Succeeded, is not a success, and its span *)
(* is ended with the Report error; after a failed Succeeded it is not a     *)
(* success and its span is ended with the Succeeded error; an attempt       *)
(* without a failure ends its span without error.  successCount changes     *)
(* only in the store of an attempt whose Report succeeded and whose         *)
(* Succeeded returned true.                                                 *)
C14_ReportThenSucceeded ==
    /\ [](\A k \in 1..Len(runners[0]) :
             LET r == runners[0][k]
                 ended == r.span.ended = 1
             IN  /\ r.pc \in {"idle", "start", "report"} =>
                       r.reported = "none" /\ r.succeeded = "none"
                 /\ r.succeeded # "none" => r.reported = "ok"
                 /\ r.pc = "succeeded" => r.reported = "ok"
                 /\ r.reported = "err" =>
                       /\ r.succeeded = "none"
                       /\ r.rerr = ReportError(heap[0], k)
                       /\ ended => r.span.err = ReportError(heap[0], k)
                 /\ r.succeeded = "err" =>
                       /\ r.rerr = SucceededError(heap[0], k)
                       /\ ended => r.span.err = SucceededError(heap[0], k)
                 /\ (~Failed(0, k) /\ ended) => r.span.err = NoErr
                 /\ r.pc \in {"inc_read", "inc_write"} =>
                       r.reported = "ok" /\ r.succeeded = "true")
    /\ [][calls'[0].successCount # calls[0].successCount /\ calls[0].pc = "launch" =>
            \E k \in 1..Len(runners[0]) :
               /\ runners[0][k].pc = "inc_write"
               /\ runners'[0][k].pc = "defer_slot"
               /\ runners[0][k].reported = "ok"
               /\ runners[0][k].succeeded = "true"
               /\ calls'[0].successCount = runners[0][k].tmp + 1]_vars

\* one attempt has ended its span with its Report error, another with its
\* Succeeded error, and a third has stored its increment
C14_Witness ==
    \E i, j, k \in 1..Len(runners[0]) :
       /\ runners[0][i].reported = "err" /\ runners[0][i].span.ended = 1
       /\ runners[0][j].succeeded = "err" /\ runners[0][j].span.ended = 1
       /\ runners[0][k].succeeded = "true" /\ runners[0][k].pc = "done"
       /\ calls[0].successCount = 1

(* C15: every "attempt k" span and every "model: m" span is begun exactly   *)
(* once by its goroutine and ended exactly once, after it was begun and     *)
(* before the goroutine signals its WaitGroup, on every exit path; when an  *)
(* Evaluate call is past its join all its attempt spans are ended, and when *)
(* EvaluateAllModelsOnce has returned all K model spans are ended.          *)
C15_SpansEndedOnce ==
    /\ \A c \in Calls : \A k \in 1..Len(runners[c]) :
          LET r == runners[c][k]
          IN  /\ r.span.begun = (IF r.pc \in {"idle", "start"} THEN 0 ELSE 1)
              /\ r.span.ended = (IF r.pc \in {"defer_done", "done"} THEN 1 ELSE 0)
              /\ r.span.begun = 1 => r.span.name = AttemptSpanName(k)
              /\ calls[c].pc \in {"assemble", "returned"} =>
                    r.span.begun = 1 /\ r.span.ended = 1
    /\ \A i \in 1..K :
          /\ mrun[i].span.begun = (IF mrun[i].pc \in {"idle", "start"} THEN 0 ELSE 1)
          /\ mrun[i].span.ended =
                (IF mrun[i].pc \in {"slot", "defer_done", "done"} THEN 1 ELSE 0)
          /\ mrun[i].span.begun = 1 =>
                mrun[i].span.name = ModelSpanName(knownModels[i])
          /\ mrun[i].span.ended = 1 => calls[i].pc = "returned"
          /\ AllModelsReturned =>
                mrun[i].span.begun = 1 /\ mrun[i].span.ended = 1

\* EvaluateAllModelsOnce has returned after one model's attempt failed to
\* render, another's failed its success check and a third's succeeded
C15_Witness ==
    /\ AllModelsReturned
    /\ caller.name \in evals
    /\ \E h, i, j \in 1..K :
          /\ runners[h][1].reported = "err" /\ runners[h][1].span.ended = 1
          /\ runners[i][1].succeeded = "err" /\ runners[i][1].span.ended = 1
          /\ runners[j][1].succeeded = "true" /\ runners[j][1].span.ended = 1

\* the attempts of the per-model runs that have run to their end
ExecutedAttempts ==
    {i \in 1..K : Len(runners[i]) = 1 /\ runners[i][1].pc = "done"}

(* C16 as stated: whenever EvaluateAllModelsOnce has returned, exactly K     *)
(* attempts were executed in total, one per known model, each with attempt  *)
(* index 1.                                                                 *)
C16_ExactlyKAttempts ==
    AllModelsReturned =>
        /\ Cardinality(ExecutedAttempts) = K
        /\ \A i \in 1..K : runners[i][1].span.name = AttemptSpanName(1)

(* C16 amended: for each position i EvaluateAllModelsOnce makes exactly one *)
(* Evaluate call, on a fresh workspace {knownModels[i], 1, the caller's     *)
(* system prompt}; the caller's own workspace is not changed by the call    *)
(* and runs no attempt of its own.  With a registered name each run         *)
(* executes exactly one attempt, of index 1, with that configuration, K in  *)
(* total; with an unregistered name no attempt is executed at all.          *)
C16_FreshOneAttemptRuns ==
    /\ [](caller.op = "EvaluateAllModelsOnce" =>
            /\ runners[0] = <<>> /\ calls[0] = NoCall
            /\ DOMAIN heap = {0} \cup {i \in 1..K : mrun[i].pc \notin {"idle", "start"}}
            /\ \A i \in DOMAIN heap \ {0} :
                  /\ heap[i] = New(knownModels[i], 1, heap[0].SystemPrompt)
                  /\ calls[i].pc # "none" /\ calls[i].eval = caller.name
                  /\ Len(runners[i]) <= 1
                  /\ \A k \in 1..Len(runners[i]) :
                        /\ runners[i][k].pc \notin {"idle", "start"} =>
                              /\ runners[i][k].span.name = AttemptSpanName(1)
                              /\ runners[i][k].report[1] = AttemptHeader(1)[1]
                        /\ runners[i][k].reported = "ok" =>
                              runners[i][k].report[3] =
                                 EvalReportText(New(knownModels[i], 1,
                                                    heap[0].SystemPrompt), 1)
            /\ AllModelsReturned =>
                  Cardinality(ExecutedAttempts) =
                      (IF caller.name \in evals THEN K ELSE 0))
    /\ [][/\ caller'.op = "EvaluateAllModelsOnce" => heap'[0] = heap[0]
          /\ \A i \in 1..K :
                calls'[i].pc = "entered" /\ calls[i].pc # "entered" =>
                    calls[i].pc = "none" /\ mrun[i].pc = "start"]_vars

\* EvaluateAllModelsOnce has returned after K one-attempt runs that all
\* rendered their report under the caller's non-empty system prompt
C16_Witness ==
    /\ AllModelsReturned
    /\ heap[0].SystemPrompt # ""
    /\ Cardinality(ExecutedAttempts) = K
    /\ \A i \in 1..K : runners[i][1].reported = "ok"

\* attempt k of call c is inside its Report or its Succeeded call
Pending(c, k) == runners[c][k].pc \in {"report", "succeeded"}

(* C17: when every Report and Succeeded call returns and runnable           *)
(* goroutines are scheduled (the fairness of SpecFair), a call of Evaluate  *)
(* or of EvaluateAllModelsOnce leads to its return, with the aggregate      *)
(* report for a registered name.  No coordinator has a timeout: as long as  *)
(* one attempt is inside Report or Succeeded, its Evaluate call is still at *)
(* its join and has not returned, and neither has the enclosing             *)
(* EvaluateAllModelsOnce.                                                   *)
C17_ReturnsWhenAttemptsReturn ==
    /\ [](\A c \in Calls : \A k \in 1..Len(runners[c]) :
             Pending(c, k) =>
                /\ calls[c].pc = "launch" /\ calls[c].wg >= 1
                /\ caller.pc = "called"
                /\ c >= 1 => /\ fan.pc = "launch" /\ fan.wg >= 1
                             /\ mrun[c].pc = "evaluate")
    /\ (caller.pc = "called") ~>
          (/\ caller.pc = "done"
           /\ (caller.op = "Evaluate" /\ caller.name \in evals) =>
                 /\ caller.err = NoErr
                 /\ caller.result = calls[0].ret
                 /\ Len(caller.result) = 7 + Len(Flatten(calls[0].reports))
           /\ caller.op = "EvaluateAllModelsOnce" =>
                 \A i \in 1..K : calls[i].pc = "returned")

\* the last attempt of the fan-out is still inside Succeeded while every
\* other run has returned: the fan-out is waiting for it
C17_Witness ==
    /\ caller.op = "EvaluateAllModelsOnce" /\ caller.pc = "called"
    /\ \E i \in 1..K :
          /\ Len(runners[i]) = 1 /\ runners[i][1].pc = "succeeded"
          /\ \A j \in 1..K \ {i} : mrun[j].pc = "done"

(* C18: the context of Evaluate reaches every attempt's Report and          *)
(* Succeeded call, so a call returns the cancellation only after the        *)
(* caller cancelled; such an attempt is a failed attempt: it is not         *)
(* counted, its span is ended with the cancellation and its section keeps   *)
(* what was rendered before.  Once the context is cancelled, without any    *)
(* assumption that an uncancelled call returns, Evaluate returns, and for a *)
(* registered name it returns the complete aggregate of all N sections.     *)
C18_CancellationCompletesJoin ==
    /\ [](\A k \in 1..Len(runners[0]) :
             LET r == runners[0][k]
             IN  r.rerr = Canceled =>
                    /\ caller.cancelled
                    /\ Failed(0, k) /\ r.succeeded # "true"
                    /\ r.pc \notin {"inc_read", "inc_write"}
                    /\ r.report = OwnSection(0, k)
                    /\ r.span.ended = 1 => r.span.err = Canceled)
    /\ (caller.cancelled /\ caller.pc = "called") ~>
          (/\ caller.pc = "done"
           /\ caller.name \in evals =>
                 /\ caller.err = NoErr
                 /\ \A k \in 1..heap[0].Attempts :
                       /\ runners[0][k].pc = "done"
                       /\ calls[0].reports[k] = OwnSection(0, k)
                 /\ Body(caller.result) = Flatten(calls[0].reports)
                 /\ caller.result[Len(caller.result)] =
                       SuccessRateLine(calls[0].successCount, heap[0].Attempts))

\* Evaluate has returned after one attempt's Report and the other attempt's
\* Succeeded returned the cancellation
C18_Witness ==
    /\ caller.pc = "done" /\ caller.cancelled /\ caller.err = NoErr
    /\ \E j, k \in 1..Len(runners[0]) :
          /\ runners[0][j].rerr = Canceled /\ runners[0][j].reported = "err"
          /\ runners[0][k].rerr = Canceled /\ runners[0][k].succeeded = "err"

(* C19: Evaluate of a registered name on a workspace with Attempts = 0 is   *)
(* not rejected: it has no attempt goroutine, no span and no slot, its      *)
(* WaitGroup and counter stay 0, it goes from its lookup through the join   *)
(* to its return, and it returns a nil error and the report without attempt *)
(* sections whose last line is the rate 0/0, rendered "NaN%".               *)
C19_ZeroAttempts ==
    (calls[0].pc # "none" /\ calls[0].eval \in evals /\ heap[0].Attempts = 0) =>
        /\ runners[0] = <<>>
        /\ calls[0].reports = <<>>
        /\ calls[0].wg = 0 /\ calls[0].successCount = 0 /\ calls[0].attempt = 0
        /\ calls[0].pc \in {"entered", "launch", "assemble", "returned"}
        /\ calls[0].pc = "returned" =>
              /\ calls[0].err = NoErr
              /\ calls[0].ret =
                    <<"# Model: " \o heap[0].Model, "", "## All Attempts", "",
                      "## Final Report", "", "SUCCESS RATE: 0/0 (NaN%)">>
        /\ caller.pc = "done" =>
              caller.err = NoErr /\ caller.result = calls[0].ret

\* the caller has the report of a run without attempts
C19_Witness ==
    /\ caller.pc = "done" /\ caller.op = "Evaluate" /\ caller.name \in evals
    /\ heap[0].Attempts = 0
    /\ Len(caller.result) = 7

(* C20: the counter of each per-model Evaluate call is that call's own: it  *)
(* changes only in the store of that call's single attempt, is 0 or 1, and  *)
(* is never changed by another run.  The report of every per-model run that *)
(* returned without error ends in "SUCCESS RATE: 1/1 (100%)" when its       *)
(* attempt's Succeeded returned true and in "SUCCESS RATE: 0/1 (0%)"        *)
(* otherwise, and so does the outcome EvaluateAllModelsOnce returns for it. *)
C20_CounterPerCall ==
    /\ [](\A i \in 1..K :
             LET line == IF Len(runners[i]) = 1 /\ runners[i][1].succeeded = "true"
                         THEN "SUCCESS RATE: 1/1 (100%)"
                         ELSE "SUCCESS RATE: 0/1 (0%)"
             IN  /\ calls[i].successCount = Cardinality(Counted(i))
                 /\ calls[i].successCount \in {0, 1}
                 /\ (calls[i].pc = "returned" /\ calls[i].err = NoErr) =>
                       /\ calls[i].ret[Len(calls[i].ret)] = line
                       /\ mrun[i].pc \in {"defer_done", "done"} =>
                             fan.reports[i][Len(fan.reports[i])] = line
                       /\ AllModelsReturned =>
                             caller.result[i][Len(caller.result[i])] = line)
    /\ [][\A i \in 1..K :
             calls'[i].successCount # calls[i].successCount =>
                /\ runners[i][1].pc = "inc_write"
                /\ runners'[i][1].pc = "defer_slot"
                /\ calls'[i].successCount = calls[i].successCount + 1
                /\ \A j \in Calls \ {i} : calls'[j] = calls[j]]_vars

\* EvaluateAllModelsOnce has returned the rates 1/1, 1/1 and 0/1 for three
\* of its models
C20_Witness ==
    /\ AllModelsReturned
    /\ \E h, i, j \in 1..K :
          /\ h # i
          /\ caller.result[h][Len(caller.result[h])] = "SUCCESS RATE: 1/1 (100%)"
          /\ caller.result[i][Len(caller.result[i])] = "SUCCESS RATE: 1/1 (100%)"
          /\ caller.result[j][Len(caller.result[j])] = "SUCCESS RATE: 0/1 (0%)"

====
